---- MODULE Spec2Model ----
(***************************************************************************)
(* doc2md: one run of main() of doc2md.py, from the parsed command line to *)
(* the exit of the process.  Text is a sequence of one-character strings,  *)
(* bytes are sequences of 0..255, Python values are tagged records.        *)
(***************************************************************************)
EXTENDS Integers, Sequences, FiniteSets, TLC

\* ------------------------------------------------------------------ bounds
MaxPages == 2
MaxContentLen == 1

\* ---------------------------------------------------------- Python values
None == [type |-> "NoneType", val |-> ""]
Str(s) == [type |-> "str", val |-> s]
PyInt(s) == [type |-> "int", val |-> s]
\* a key that a dict does not hold
Absent == [type |-> "absent", val |-> ""]

\* truth value of a Python object (None, str, int)
Truthy(v) ==
    CASE v.type = "str" -> v.val # ""
      [] v.type = "int" -> v.val # "0"
      [] OTHER -> FALSE

\* a or b
PyOr(a, b) == IF Truthy(a) THEN a ELSE b

\* d.get(k): None for a key the dict does not hold
DictGet(d, k) == IF d[k] = Absent THEN None ELSE d[k]

\* isinstance(v, str)
IsStr(v) == v.type = "str"

\* -------------------------------------------------------------- constants
IMAGE_EXTS ==
    { <<"j","p","g">>, <<"j","p","e","g">>, <<"p","n","g">>,
      <<"g","i","f">>, <<"b","m","p">>, <<"w","e","b","p">> }
DEFAULT_ENDPOINT == Str("http://localhost:11434/v1/chat/completions")
DEFAULT_MODEL == Str("qwen2.5vl:latest")
PDF_EXT == <<"p","d","f">>
PNG_EXT == <<"p","n","g">>
ConfigKeys == {"endpoint", "model", "api_key"}

\* ------------------------------------------------------- string functions
UpperLetters ==
    <<"A","B","C","D","E","F","G","H","I","J","K","L","M",
      "N","O","P","Q","R","S","T","U","V","W","X","Y","Z">>
LowerLetters ==
    <<"a","b","c","d","e","f","g","h","i","j","k","l","m",
      "n","o","p","q","r","s","t","u","v","w","x","y","z">>

LowerChar(c) ==
    IF \E k \in DOMAIN UpperLetters : UpperLetters[k] = c
    THEN LowerLetters[CHOOSE k \in DOMAIN UpperLetters : UpperLetters[k] = c]
    ELSE c

\* s.lower()
Lower(s) == [k \in DOMAIN s |-> LowerChar(s[k])]

\* s.lstrip(".")
RECURSIVE LStripDot(_)
LStripDot(s) ==
    IF s # <<>> /\ Head(s) = "." THEN LStripDot(Tail(s)) ELSE s

\* s.rfind(c), 1-based, 0 when c does not occur
RFind(s, c) ==
    IF \E k \in DOMAIN s : s[k] = c
    THEN CHOOSE k \in DOMAIN s : s[k] = c /\ \A j \in DOMAIN s : s[j] = c => j <= k
    ELSE 0

\* os.path.splitext(p)[1]: the last dot of the last component and what
\* follows it, unless only dots precede it in that component
SplitExt(p) ==
    LET sepIndex == RFind(p, "/")
        dotIndex == RFind(p, ".")
    IN  IF dotIndex > sepIndex
           /\ \E k \in (sepIndex + 1) .. (dotIndex - 1) : p[k] # "."
        THEN SubSeq(p, dotIndex, Len(p))
        ELSE <<>>

\* os.path.splitext(input_path)[1].lower().lstrip(".")
InputExt(p) == LStripDot(Lower(SplitExt(p)))

\* ----------------------------------------------------------------- base64
B64Alphabet ==
    <<"A","B","C","D","E","F","G","H","I","J","K","L","M","N","O","P",
      "Q","R","S","T","U","V","W","X","Y","Z","a","b","c","d","e","f",
      "g","h","i","j","k","l","m","n","o","p","q","r","s","t","u","v",
      "w","x","y","z","0","1","2","3","4","5","6","7","8","9","+","/">>

B64Char(n) == B64Alphabet[n + 1]

\* base64.b64encode(data).decode("utf-8")
RECURSIVE B64Encode(_)
B64Encode(d) ==
    IF Len(d) = 0 THEN <<>>
    ELSE IF Len(d) = 1 THEN
        << B64Char(d[1] \div 4), B64Char((d[1] % 4) * 16), "=", "=" >>
    ELSE IF Len(d) = 2 THEN
        << B64Char(d[1] \div 4),
           B64Char((d[1] % 4) * 16 + d[2] \div 16),
           B64Char((d[2] % 16) * 4), "=" >>
    ELSE
        << B64Char(d[1] \div 4),
           B64Char((d[1] % 4) * 16 + d[2] \div 16),
           B64Char((d[2] % 16) * 4 + d[3] \div 64),
           B64Char(d[3] % 64) >> \o B64Encode(SubSeq(d, 4, Len(d)))

\* encode_image_to_data_url(data, image_ext)
EncodeImageToDataUrl(data, image_ext) ==
    LET e0 == LStripDot(Lower(image_ext))
        e  == IF e0 = <<"j","p","g">> THEN <<"j","p","e","g">> ELSE e0
    IN  <<"data:image/">> \o e \o <<";base64,">> \o B64Encode(data)

\* ------------------------------------------------------ join of the pages
\* sep.join(parts)
RECURSIVE JoinWith(_, _)
JoinWith(sep, parts) ==
    IF Len(parts) = 0 THEN <<>>
    ELSE IF Len(parts) = 1 THEN parts[1]
    ELSE parts[1] \o sep \o JoinWith(sep, Tail(parts))

\* mutant: pages joined with a single newline
JoinResultsOneNewline(results) == JoinWith(<<"\n">>, results)

\* "\n\n".join(results)
JoinResults(results) == JoinWith(<<"\n", "\n">>, results)

\* mutant: the text written without its line end
PrintNoLineEnd(text) == text

\* what print(text) writes to sys.stdout: the text and the line end
PrintLine(text) == text \o <<"\n">>

\* what output_file.write(text) leaves in the file
FileWrite(text) == text

\* ------------------------------------------------- configuration resolver
\* mutant: the llm table laid over the top-level keys, key by key
LoadConfigMerged(data) ==
    [k \in ConfigKeys |->
        IF data.llm.kind = "table" /\ IsStr(data.llm.table[k]) THEN data.llm.table[k]
        ELSE IF IsStr(data.top[k]) THEN data.top[k]
        ELSE Absent]

\* load_config, lines 116-128: the dict built from the parsed TOML document
LoadConfigResult(data) ==
    LET base == IF data.llm.kind = "table" THEN data.llm.table ELSE data.top
    IN  [k \in ConfigKeys |-> IF IsStr(base[k]) THEN base[k] ELSE Absent]

\* mutant: the config file wins over the CLI flag
EffectiveEndpointConfigFirst(a, cfg) ==
    PyOr(PyOr(DictGet(cfg, "endpoint"), a.endpoint), DEFAULT_ENDPOINT)

\* args.endpoint or config.get("endpoint") or DEFAULT_ENDPOINT
EffectiveEndpoint(a, cfg) ==
    PyOr(PyOr(a.endpoint, DictGet(cfg, "endpoint")), DEFAULT_ENDPOINT)

\* args.model or config.get("model") or DEFAULT_MODEL
EffectiveModel(a, cfg) ==
    PyOr(PyOr(a.model, DictGet(cfg, "model")), DEFAULT_MODEL)

\* mutant: the environment wins over the config file
EffectiveApiKeyEnvFirst(cfg, e) ==
    PyOr(PyOr(e.PDF2MARKDOWN_API_KEY, e.OPENAI_API_KEY), DictGet(cfg, "api_key"))

\* config.get("api_key") or os.environ.get(...) or os.environ.get(...)
EffectiveApiKey(cfg, e) ==
    PyOr(PyOr(DictGet(cfg, "api_key"), e.PDF2MARKDOWN_API_KEY), e.OPENAI_API_KEY)

\* ------------------------------------------------ vision extraction client
INSTRUCTION == "Please extract all text from this image and convert it to Markdown format ..."

\* the headers dict of a request
RequestHeaders(api_key) ==
    { [name |-> "Content-Type", value |-> <<"application/json">>] }
    \cup (IF Truthy(api_key)
          THEN { [name |-> "Authorization", value |-> <<"Bearer", api_key.val>>] }
          ELSE {})

\* the POST that extract_markdown_from_image sends
BuildRequest(ep, mdl, image_bytes, image_ext, key) ==
    [ url      |-> ep.val,
      headers  |-> RequestHeaders(key),
      model    |-> mdl.val,
      text     |-> INSTRUCTION,
      data_url |-> EncodeImageToDataUrl(image_bytes, image_ext) ]

\* mutant: only server errors raise
RaisesForServerError(status) == 500 <= status /\ status < 600

\* response.raise_for_status(): raises HTTPError for 4xx and 5xx
RaisesForStatus(status) == 400 <= status /\ status < 600

\* what lines 56-58 make of the endpoint's answer: the exception raised, or
\* "none" and the returned content
PostOutcome(resp) ==
    IF ~resp.delivered THEN [raised |-> "ConnectionError", value |-> <<>>]
    ELSE IF RaisesForStatus(resp.status) THEN [raised |-> "HTTPError", value |-> <<>>]
    ELSE IF resp.shape = "ok" THEN [raised |-> "none", value |-> resp.content]
    ELSE IF resp.shape = "empty_choices" THEN [raised |-> "IndexError", value |-> <<>>]
    ELSE [raised |-> "KeyError", value |-> <<>>]

\* subclasses of requests.RequestException
IsRequestException(exc) == exc \in {"HTTPError", "ConnectionError"}

\* ------------------------------------------------------------ page renderer
PNG_SIGNATURE == <<137, 80, 78, 71>>

\* page.get_pixmap(matrix, alpha=False).tobytes("png")
RenderPng(page) == PNG_SIGNATURE \o <<page.pixels>>

\* ------------------------------------------------------------ orchestrator
\* mutant: whatever is not a PDF is sent as an image
RouteOfLax(e) == IF e = PDF_EXT THEN "pdf" ELSE "image"

\* the branch main takes for an extension, lines 185-196
RouteOf(e) ==
    IF e \in IMAGE_EXTS THEN "image"
    ELSE IF e = PDF_EXT THEN "pdf"
    ELSE "unsupported"

\* mutant: the write error handler does not exit with a failure status
ExitCodeOfLax(kind) == IF kind = "write_error" THEN 0 ELSE 1

\* the status every error handler passes to sys.exit
ExitCodeOf(kind) == 1

\* mutant: an empty --output value still selects the file
WritesFileIfGiven(a) == a.output # None

\* the branch of the emit step, line 199
WritesFile(a) == Truthy(a.output)

\* ==================================================== the inputs of a run
\* strings the configuration sources hold
FlatStr == [endpoint |-> "http://flat.example/v1", model |-> "flat-model", api_key |-> "flat-key"]
LlmStr  == [endpoint |-> "http://llm.example/v1", model |-> "llm-model", api_key |-> "llm-key"]

\* what a TOML document can hold under a recognised key
KeyVals(strs, k) == { Absent, Str(strs[k]), Str(""), PyInt("7") }
AllVals == UNION { KeyVals(FlatStr, k) \cup KeyVals(LlmStr, k) : k \in ConfigKeys }
EmptyTable == [k \in ConfigKeys |-> Absent]

\* the tables whose keys outside Keys are absent
Tables(strs, Keys) ==
    { t \in [ConfigKeys -> AllVals] :
        \A k \in ConfigKeys :
            t[k] \in (IF k \in Keys THEN KeyVals(strs, k) ELSE {Absent}) }

\* parsed TOML documents: top-level keys, and llm absent, a scalar or a table
TomlDocs(Keys) ==
    { [top |-> t, llm |-> [kind |-> "absent", table |-> EmptyTable]] : t \in Tables(FlatStr, Keys) }
    \cup { [top |-> t, llm |-> [kind |-> "scalar", table |-> EmptyTable]] : t \in Tables(FlatStr, Keys) }
    \cup { [top |-> t, llm |-> [kind |-> "table", table |-> l]] :
             t \in Tables(FlatStr, Keys), l \in Tables(LlmStr, Keys) }
EmptyDoc == [top |-> EmptyTable, llm |-> [kind |-> "absent", table |-> EmptyTable]]

\* the file --config names: not a file, not parseable, or a TOML document
ConfigFiles(Keys) ==
    { [kind |-> "missing", data |-> EmptyDoc], [kind |-> "garbage", data |-> EmptyDoc] }
    \cup { [kind |-> "toml", data |-> d] : d \in TomlDocs(Keys) }

\* text over a letter and the newline, up to MaxContentLen characters
Chars == {"a", "\n"}
Contents == UNION { [1..n -> Chars] : n \in 0..MaxContentLen }

\* pages of a PDF: the pixels, and whether get_pixmap succeeds on them
Pages ==
    { [pixels |-> 17, renderable |-> TRUE], [pixels |-> 200, renderable |-> TRUE],
      [pixels |-> 17, renderable |-> FALSE] }
Docs == UNION { [1..n -> Pages] : n \in 0..MaxPages }
NoPdf == [openable |-> FALSE, pages |-> <<>>]
ImageBytes == <<255, 216, 255, 224, 0>>
NoFile == [isfile |-> FALSE, readable |-> FALSE, bytes |-> <<>>]
AFile == [isfile |-> TRUE, readable |-> TRUE, bytes |-> ImageBytes]

ImagePaths ==
    { <<"a",".","j","p","g">>, <<"a",".","J","P","E","G">>, <<"a",".","p","n","g">>,
      <<"a",".","g","i","f">>, <<"a",".","b","m","p">>, <<"d",".","x","/","a",".","W","e","b","P">> }
PdfPaths == { <<"a",".","p","d","f">>, <<"b",".","P","d","F">> }
OtherPaths ==
    { <<"a",".","t","x","t">>, <<"r","e","a","d","m","e">>, <<".","p","d","f">>,
      <<"a",".","p","n","g",".">>, <<"d",".","p","d","f","/","a">> }

\* an input path with the file behind it and the PDF library's state
InputCases ==
    { [path |-> p, file |-> AFile, fitz |-> TRUE, pdf |-> NoPdf] : p \in ImagePaths \cup OtherPaths }
    \cup { [path |-> <<"a",".","p","n","g">>, file |-> f, fitz |-> TRUE, pdf |-> NoPdf] :
             f \in { NoFile, [AFile EXCEPT !.readable = FALSE] } }
    \cup { [path |-> <<"a",".","t","x","t">>, file |-> NoFile, fitz |-> TRUE, pdf |-> NoPdf] }
    \cup { [path |-> <<"a",".","p","d","f">>, file |-> AFile, fitz |-> TRUE,
             pdf |-> [openable |-> TRUE, pages |-> d]] : d \in Docs }
    \cup { [path |-> p, file |-> AFile, fitz |-> TRUE, pdf |-> [openable |-> TRUE, pages |-> d]] :
             p \in PdfPaths, d \in { dd \in Docs : Len(dd) <= 1 } }
    \cup { [path |-> <<"a",".","p","d","f">>, file |-> AFile, fitz |-> z, pdf |-> NoPdf] :
             z \in BOOLEAN }

\* one input of each kind
FewInputCases ==
    { c \in InputCases :
        /\ c.path \in { <<"a",".","j","p","g">>, <<"a",".","p","d","f">>, <<"a",".","t","x","t">> }
        /\ c.file = AFile /\ c.fitz
        /\ (c.pdf.openable => Len(c.pdf.pages) = 1 /\ \A k \in DOMAIN c.pdf.pages : c.pdf.pages[k].renderable) }

\* what opening and writing the --output file does
OutModes == { "ok", "open_fails", "write_fails" }
\* the --output file before the run
OldFiles == { [exists |-> FALSE, content |-> <<>>], [exists |-> TRUE, content |-> <<"o", "l", "d">>] }

\* what the endpoint can answer to one request
Responses ==
    { [delivered |-> TRUE, status |-> 200, shape |-> "ok", content |-> c] : c \in Contents }
    \cup { [delivered |-> TRUE, status |-> 300, shape |-> "ok", content |-> <<"a">>] }
    \cup { [delivered |-> TRUE, status |-> 200, shape |-> sh, content |-> <<>>] :
             sh \in { "no_choices", "empty_choices", "no_content" } }
    \cup { [delivered |-> TRUE, status |-> 404, shape |-> "ok", content |-> <<"a">>],
           [delivered |-> TRUE, status |-> 500, shape |-> "no_choices", content |-> <<>>] }
    \cup { [delivered |-> FALSE, status |-> 0, shape |-> "none", content |-> <<>>] }

\* ================================================================== state
VARIABLES
    args,        \* the parsed command line
    env,         \* os.environ, the two API-key variables
    world,       \* the files and libraries the run finds
    pc,          \* where main is
    config,      \* what load_config returned
    endpoint, model, api_key,   \* the effective settings
    ext,         \* the extension main computed
    page_count, i, results,     \* process_pdf's locals
    text,        \* main's text: [bound, val]
    requests,    \* the POSTs sent, in order
    responses,   \* what the endpoint answered to each
    rendered,    \* the pages get_pixmap was called on, in order
    outfile,     \* the --output file
    stdout,      \* the characters written to sys.stdout
    stderr,      \* the messages written to sys.stderr
    exit_code    \* the exit status, -1 while running

vars == << args, env, world, pc, config, endpoint, model, api_key, ext, page_count, i,
           results, text, requests, responses, rendered, outfile, stdout, stderr, exit_code >>

Unbound == [bound |-> FALSE, val |-> <<>>]

InitOver(ArgSet, EnvSet, CfgFiles, Cases, Modes) ==
    /\ \E c \in Cases, a \in ArgSet, cf \in CfgFiles, tl \in BOOLEAN, m \in Modes, old \in OldFiles :
        /\ args = [a EXCEPT !.input_path = c.path]
        /\ world = [config_file |-> cf, tomllib |-> tl, input |-> c.file, fitz |-> c.fitz,
                    pdf |-> c.pdf, out_mode |-> m, old_file |-> old]
        \* the fields a run never reads are fixed
        /\ (~Truthy(a.config) => cf.kind = "missing" /\ tl)
        /\ (cf.kind # "toml" => tl)
        /\ (~Truthy(a.output) => m = "ok" /\ ~old.exists)
    /\ env \in EnvSet
    /\ outfile = world.old_file
    /\ pc = "load_config"
    /\ config = EmptyTable
    /\ endpoint = None /\ model = None /\ api_key = None
    /\ ext = <<>>
    /\ page_count = 0 /\ i = 0 /\ results = <<>>
    /\ text = Unbound
    /\ requests = <<>> /\ responses = <<>> /\ rendered = <<>>
    /\ stdout = <<>> /\ stderr = <<>>
    /\ exit_code = -1

\* command lines: every flag absent, empty or given
ArgsOver(Endpoints, Models, Configs, Outputs) ==
    { [input_path |-> <<>>, endpoint |-> e, model |-> m, config |-> c, output |-> o] :
        e \in Endpoints, m \in Models, c \in Configs, o \in Outputs }
FlagVals(s) == { None, Str(""), Str(s) }
EnvsOver(Tool, Generic) == { [PDF2MARKDOWN_API_KEY |-> t, OPENAI_API_KEY |-> g] : t \in Tool, g \in Generic }

\* every route and failure of a run, under a few settings
Init ==
    InitOver(
        ArgsOver({None}, {None}, {None, Str("cfg.toml")}, FlagVals("out.md")),
        EnvsOver({None}, {None}),
        { [kind |-> "missing", data |-> EmptyDoc], [kind |-> "garbage", data |-> EmptyDoc],
          [kind |-> "toml", data |-> [EmptyDoc EXCEPT !.top.endpoint = Str(FlatStr.endpoint)]] },
        InputCases, OutModes)

\* every source of endpoint and model, on one input of each kind
InitSettings ==
    InitOver(
        ArgsOver(FlagVals("http://cli.example/v1"), FlagVals("cli-model"), FlagVals("cfg.toml"), {None, Str("out.md")}),
        EnvsOver({None}, {None}),
        ConfigFiles({"endpoint", "model"}),
        FewInputCases, {"ok"})

\* every source of the API key, on one input of each kind
InitApiKey ==
    InitOver(
        ArgsOver({None}, {None}, FlagVals("cfg.toml"), {None, Str("out.md")}),
        EnvsOver(FlagVals("tool-key"), FlagVals("generic-key")),
        ConfigFiles({"api_key"}),
        FewInputCases, {"ok"})

\* ================================================================ actions
Msg(kind, page, exc) == [kind |-> kind, page |-> page, exc |-> exc]

\* an error handler: the message on stderr, then sys.exit
Fatal(kind, page, exc) ==
    /\ stderr' = Append(stderr, Msg(kind, page, exc))
    /\ exit_code' = ExitCodeOf(kind)
    /\ pc' = "done"

\* an exception no handler catches: the traceback on stderr, exit status 1
Unhandled(exc) ==
    /\ stderr' = Append(stderr, Msg("traceback", 0, exc))
    /\ exit_code' = 1
    /\ pc' = "done"

\* load_config(args.config), lines 101-131
LoadConfig ==
    /\ pc = "load_config"
    /\ IF ~Truthy(args.config)
       THEN /\ config' = EmptyTable
            /\ pc' = "settings"
            /\ UNCHANGED << stderr, exit_code >>
       ELSE IF world.config_file.kind = "missing"
       THEN Fatal("config_not_found", 0, "") /\ UNCHANGED config
       ELSE IF ~world.tomllib
       THEN Fatal("tomllib_unavailable", 0, "") /\ UNCHANGED config
       ELSE IF world.config_file.kind = "garbage"
       THEN Fatal("config_read_error", 0, "TOMLDecodeError") /\ UNCHANGED config
       ELSE /\ config' = LoadConfigResult(world.config_file.data)
            /\ pc' = "settings"
            /\ UNCHANGED << stderr, exit_code >>
    /\ UNCHANGED << args, env, world, endpoint, model, api_key, ext, page_count, i, results,
                    text, requests, responses, rendered, outfile, stdout >>

\* the effective settings, lines 170-173
ResolveSettings ==
    /\ pc = "settings"
    /\ endpoint' = EffectiveEndpoint(args, config)
    /\ model' = EffectiveModel(args, config)
    /\ api_key' = EffectiveApiKey(config, env)
    /\ pc' = "validate"
    /\ UNCHANGED << args, env, world, config, ext, page_count, i, results, text, requests,
                    responses, rendered, outfile, stdout, stderr, exit_code >>

\* the input path check and the extension, lines 175-182
ValidateInput ==
    /\ pc = "validate"
    /\ IF ~world.input.isfile
       THEN Fatal("input_missing", 0, "") /\ UNCHANGED ext
       ELSE /\ ext' = InputExt(args.input_path)
            /\ pc' = "route"
            /\ UNCHANGED << stderr, exit_code >>
    /\ UNCHANGED << args, env, world, config, endpoint, model, api_key, page_count, i, results,
                    text, requests, responses, rendered, outfile, stdout >>

\* the branch on the extension, lines 185, 189, 191-196
Route ==
    /\ pc = "route"
    /\ CASE RouteOf(ext) = "image" -> pc' = "image" /\ UNCHANGED << stderr, exit_code >>
         [] RouteOf(ext) = "pdf" -> pc' = "pdf_open" /\ UNCHANGED << stderr, exit_code >>
         [] OTHER -> Fatal("unsupported_format", 0, "")
    /\ UNCHANGED << args, env, world, config, endpoint, model, api_key, ext, page_count, i,
                    results, text, requests, responses, rendered, outfile, stdout >>

\* the image branch, lines 186-188, with the handler of lines 209-211
ExtractImage ==
    /\ pc = "image"
    /\ IF ~world.input.readable
       THEN /\ Unhandled("OSError")
            /\ UNCHANGED << text, requests, responses >>
       ELSE \E resp \in Responses :
            LET out == PostOutcome(resp) IN
            /\ requests' = Append(requests,
                   BuildRequest(endpoint, model, world.input.bytes, ext, api_key))
            /\ responses' = Append(responses, resp)
            /\ IF out.raised = "none"
               THEN /\ text' = [bound |-> TRUE, val |-> out.value]
                    /\ pc' = "emit"
                    /\ UNCHANGED << stderr, exit_code >>
               ELSE IF IsRequestException(out.raised)
               THEN Fatal("request_error", 0, out.raised) /\ UNCHANGED text
               ELSE Unhandled(out.raised) /\ UNCHANGED text
    /\ UNCHANGED << args, env, world, config, endpoint, model, api_key, ext, page_count, i,
                    results, rendered, outfile, stdout >>

\* process_pdf up to the loop, lines 62-82
OpenPdf ==
    /\ pc = "pdf_open"
    /\ IF ~world.fitz
       THEN Fatal("pymupdf_missing", 0, "ImportError") /\ UNCHANGED << page_count, i, results >>
       ELSE IF ~world.pdf.openable
       THEN Fatal("pdf_open_error", 0, "") /\ UNCHANGED << page_count, i, results >>
       ELSE /\ page_count' = Len(world.pdf.pages)
            /\ results' = <<>>
            /\ i' = 1
            /\ pc' = "pdf_page"
            /\ UNCHANGED << stderr, exit_code >>
    /\ UNCHANGED << args, env, world, config, endpoint, model, api_key, ext, text, requests,
                    responses, rendered, outfile, stdout >>

\* one iteration of the page loop, lines 84-96
ProcessPage ==
    /\ pc = "pdf_page"
    /\ i <= page_count
    /\ rendered' = Append(rendered, i)
    /\ IF ~world.pdf.pages[i].renderable
       THEN /\ Fatal("page_rendering_error", i, "RuntimeError")
            /\ UNCHANGED << i, results, requests, responses >>
       ELSE \E resp \in Responses :
            LET out == PostOutcome(resp) IN
            /\ requests' = Append(requests,
                   BuildRequest(endpoint, model, RenderPng(world.pdf.pages[i]), PNG_EXT, api_key))
            /\ responses' = Append(responses, resp)
            /\ IF out.raised = "none"
               THEN /\ results' = Append(results, out.value)
                    /\ stderr' = Append(stderr, Msg("progress", i, ""))
                    /\ i' = i + 1
                    /\ UNCHANGED << pc, exit_code >>
               ELSE IF IsRequestException(out.raised)
               THEN Fatal("page_request_error", i, out.raised) /\ UNCHANGED << i, results >>
               ELSE Fatal("page_rendering_error", i, out.raised) /\ UNCHANGED << i, results >>
    /\ UNCHANGED << args, env, world, config, endpoint, model, api_key, ext, page_count, text,
                    outfile, stdout >>

\* the end of the loop: the joined pages become main's text, lines 98 and 190
ReturnPdf ==
    /\ pc = "pdf_page"
    /\ i > page_count
    /\ text' = [bound |-> TRUE, val |-> JoinResults(results)]
    /\ pc' = "emit"
    /\ UNCHANGED << args, env, world, config, endpoint, model, api_key, ext, page_count, i,
                    results, requests, responses, rendered, outfile, stdout, stderr, exit_code >>

\* proper prefixes of a text
Prefixes(t) == { SubSeq(t, 1, n) : n \in 0..(Len(t) - 1) }

\* the --output branch, lines 199-206
EmitFile ==
    /\ pc = "emit"
    /\ WritesFile(args)
    /\ CASE world.out_mode = "ok" ->
              /\ outfile' = [exists |-> TRUE, content |-> FileWrite(text.val)]
              /\ stderr' = Append(stderr, Msg("saved", 0, ""))
              /\ exit_code' = 0
              /\ pc' = "done"
         [] world.out_mode = "open_fails" ->
              /\ Fatal("write_error", 0, "OSError")
              /\ UNCHANGED outfile
         [] OTHER ->
              \* open() truncated the file, write() or close() failed
              /\ \E part \in Prefixes(text.val) \cup {<<>>} :
                    outfile' = [exists |-> TRUE, content |-> part]
              /\ Fatal("write_error", 0, "OSError")
    /\ UNCHANGED << args, env, world, config, endpoint, model, api_key, ext, page_count, i,
                    results, text, requests, responses, rendered, stdout >>

\* the stdout branch, lines 207-208
EmitStdout ==
    /\ pc = "emit"
    /\ ~WritesFile(args)
    /\ stdout' = stdout \o PrintLine(text.val)
    /\ exit_code' = 0
    /\ pc' = "done"
    /\ UNCHANGED << args, env, world, config, endpoint, model, api_key, ext, page_count, i,
                    results, text, requests, responses, rendered, outfile, stderr >>

Next ==
    \/ LoadConfig
    \/ ResolveSettings
    \/ ValidateInput
    \/ Route
    \/ ExtractImage
    \/ OpenPdf
    \/ ProcessPage
    \/ ReturnPdf
    \/ EmitFile
    \/ EmitStdout

Spec == Init /\ [][Next]_vars
SpecSettings == InitSettings /\ [][Next]_vars
SpecApiKey == InitApiKey /\ [][Next]_vars

\* ================================================================= claims
Done == pc = "done"
LastMsg == stderr[Len(stderr)]
ErrorKinds ==
    { "config_not_found", "tomllib_unavailable", "config_read_error", "input_missing",
      "unsupported_format", "pymupdf_missing", "pdf_open_error", "page_request_error",
      "page_rendering_error", "request_error", "write_error", "traceback" }
\* the request succeeded: a response arrived and its content was returned
Succeeded(resp) == PostOutcome(resp).raised = "none"
\* the request was answered with a status that is not 2xx
NonSuccessStatus(resp) == resp.delivered /\ ~(200 <= resp.status /\ resp.status <= 299)
\* the request was answered with a 4xx or 5xx status
ErrorStatus(resp) == resp.delivered /\ 400 <= resp.status /\ resp.status <= 599
PdfPages == world.pdf.pages

\* ---- C1
\* the number of characters that precede part k in the joined text
RECURSIVE PartOffset(_, _)
PartOffset(parts, k) ==
    IF k = 1 THEN 0 ELSE PartOffset(parts, k - 1) + Len(parts[k - 1]) + 2

\* t is the parts in order with exactly two newlines between consecutive ones
IsPagesWithBlankLines(t, parts) ==
    LET n == Len(parts) IN
    /\ n = 0 => t = <<>>
    /\ n > 0 => Len(t) = PartOffset(parts, n) + Len(parts[n])
    /\ \A k \in 1..n :
        SubSeq(t, PartOffset(parts, k) + 1, PartOffset(parts, k) + Len(parts[k])) = parts[k]
    /\ \A k \in 1..(n - 1) :
        LET e == PartOffset(parts, k) + Len(parts[k]) IN t[e + 1] = "\n" /\ t[e + 2] = "\n"

C2_ImageOutputVerbatim ==
    (Done /\ exit_code = 0 /\ RouteOf(ext) = "image") =>
        /\ Len(requests) = 1
        /\ IF WritesFile(args)
           THEN outfile.content = responses[1].content
           ELSE stdout = responses[1].content

\* C2 amended: a successful image run sends exactly one request, carrying
\* the file's bytes; the --output file then holds the returned content
\* verbatim and stdout stays empty, or, without an output file, stdout holds
\* the returned content followed by one newline.
C2_ImageOutputWithLineEnd ==
    (Done /\ exit_code = 0 /\ RouteOf(ext) = "image") =>
        /\ Len(requests) = 1 /\ Len(responses) = 1
        /\ requests[1].data_url = EncodeImageToDataUrl(world.input.bytes, ext)
        /\ rendered = <<>>
        /\ IF WritesFile(args)
           THEN outfile = [exists |-> TRUE, content |-> responses[1].content] /\ stdout = <<>>
           ELSE stdout = responses[1].content \o <<"\n">> /\ outfile = world.old_file

C2_Witness ==
    /\ Done /\ exit_code = 0 /\ RouteOf(ext) = "image"
    /\ ~WritesFile(args)
    /\ responses[1].content = <<"a">>
    /\ stdout = <<"a", "\n">>

\* ---- C3
\* the run stopped at request k: nothing was sent or rendered after it
AbortedAt(k) ==
    /\ Done /\ exit_code # 0 /\ exit_code # -1
    /\ Len(requests) = k
    /\ \A j \in DOMAIN rendered : rendered[j] <= k
    /\ \A j \in DOMAIN requests : j < k => Succeeded(responses[j])

\* C3 as stated: a non-2xx answer to request k aborts the run at once, with
\* no further request or rendering, no retry and a nonzero exit status.
C3_Non2xxAborts ==
    \A k \in DOMAIN responses : NonSuccessStatus(responses[k]) => AbortedAt(k)

\* C3 amended: a 4xx or 5xx answer to request k aborts the run at once, with
\* no further request or rendering, no retry and a nonzero exit status.
C3_ErrorStatusAborts ==
    \A k \in DOMAIN responses : ErrorStatus(responses[k]) => AbortedAt(k)

C3_Witness ==
    /\ Done /\ exit_code = 1 /\ RouteOf(ext) = "pdf"
    /\ page_count = 2 /\ \A k \in 1..2 : PdfPages[k].renderable
    /\ Len(responses) = 1 /\ responses[1].status = 404 /\ responses[1].shape = "ok"
    /\ rendered = <<1>>

\* ---- C4
\* the run failed at a step before the emit step
FailedBeforeEmit == Done /\ exit_code # 0 /\ LastMsg.kind # "write_error"
\* every message on stderr is of a known kind, and none is on stdout
MessagesOnStderr ==
    /\ \A k \in DOMAIN stderr : stderr[k].kind \in ErrorKinds \cup {"progress", "saved"}
    /\ (Done /\ exit_code # 0 => stderr # <<>> /\ LastMsg.kind \in ErrorKinds)
    /\ (Done /\ exit_code = 0 /\ WritesFile(args) => LastMsg.kind = "saved")
    /\ (RouteOf(ext) = "pdf" =>
            \A k \in DOMAIN results : \E j \in DOMAIN stderr : stderr[j] = Msg("progress", k, ""))

\* C4 as stated: a run that fails before the emit step leaves stdout empty
\* and the --output file as it was; stdout is written only at the emit step
\* of a run without --output, and then holds only the extracted Markdown;
\* messages go to stderr.
C4_SinksOnlyOnSuccess ==
    /\ (FailedBeforeEmit => stdout = <<>> /\ outfile = world.old_file)
    /\ (stdout # <<>> =>
            Done /\ exit_code = 0 /\ args.output = None /\ stdout = text.val)
    /\ MessagesOnStderr

\* C4 amended: a run that fails before the emit step leaves stdout empty and
\* the --output file as it was; stdout is written only at the emit step of a
\* run whose --output is absent or empty, once, and then holds the extracted
\* Markdown followed by one newline; a run with a non-empty --output never
\* writes stdout; messages go to stderr.
C4_SinksOnlyOnSuccessLineEnd ==
    /\ (FailedBeforeEmit => stdout = <<>> /\ outfile = world.old_file)
    /\ (~Done => stdout = <<>> /\ outfile = world.old_file)
    /\ (stdout # <<>> =>
            /\ Done /\ exit_code = 0 /\ text.bound
            /\ args.output \in {None, Str("")}
            /\ stdout = text.val \o <<"\n">>)
    /\ (Done /\ exit_code = 0 /\ args.output \in {None, Str("")} => stdout # <<>>)
    /\ (outfile # world.old_file => args.output \notin {None, Str("")})
    /\ MessagesOnStderr

C4_Witness ==
    /\ Done /\ exit_code = 1 /\ RouteOf(ext) = "pdf"
    /\ args.output = Str("out.md") /\ world.old_file.exists
    /\ Len(results) = 1 /\ page_count = 2
    /\ LastMsg.kind = "page_rendering_error" /\ LastMsg.page = 2
    /\ outfile = world.old_file /\ stdout = <<>>

\* ---- C5
\* the characters after the last dot of the path, lowercased
AfterLastDot(p) ==
    IF \E k \in DOMAIN p : p[k] = "."
    THEN Lower(SubSeq(p, 1 + (CHOOSE k \in DOMAIN p :
                                  p[k] = "." /\ \A j \in (k + 1)..Len(p) : p[j] # "."), Len(p)))
    ELSE <<>>

\* C5: for an existing input file whose extension is none of the six image
\* extensions nor pdf, no request is ever sent, no page is ever rendered, no
\* sink is written, and the run ends with exit status 1.
C5_UnsupportedExtensionRejected ==
    (world.input.isfile /\ AfterLastDot(args.input_path) \notin IMAGE_EXTS \cup {PDF_EXT}) =>
        /\ requests = <<>> /\ rendered = <<>>
        /\ pc \in {"load_config", "settings", "validate", "route", "done"}
        /\ exit_code # 0
        /\ (Done => exit_code = 1)
        /\ stdout = <<>> /\ outfile = world.old_file

C5_Witness ==
    /\ Done /\ exit_code = 1 /\ world.input.isfile
    /\ args.input_path = <<"a", ".", "t", "x", "t">>
    /\ LastMsg.kind = "unsupported_format"
    /\ requests = <<>>

\* ---- C6
\* first of the candidates that is present, whatever its content
FirstPresent(vals, default) ==
    IF \E k \in DOMAIN vals : vals[k] \notin {None, Absent}
    THEN vals[CHOOSE k \in DOMAIN vals :
                 vals[k] \notin {None, Absent} /\ \A j \in 1..(k - 1) : vals[j] \in {None, Absent}]
    ELSE default
\* first of the candidates that is a non-empty string
FirstNonEmpty(vals, default) ==
    IF \E k \in DOMAIN vals : IsStr(vals[k]) /\ vals[k].val # ""
    THEN vals[CHOOSE k \in DOMAIN vals :
                 /\ IsStr(vals[k]) /\ vals[k].val # ""
                 /\ \A j \in 1..(k - 1) : ~(IsStr(vals[j]) /\ vals[j].val # "")]
    ELSE default

\* C6 as stated: every request uses the CLI flag if given, else the string
\* the loaded config holds, else the default, for endpoint and for model.
C6_FlagThenConfigThenDefault ==
    \A k \in DOMAIN requests :
        /\ requests[k].url = FirstPresent(<<args.endpoint, config.endpoint>>, DEFAULT_ENDPOINT).val
        /\ requests[k].model = FirstPresent(<<args.model, config.model>>, DEFAULT_MODEL).val

\* C6 amended: every request uses the CLI flag if given with a non-empty
\* value, else the loaded config's value if it is a non-empty string, else
\* the default, for endpoint and for model independently.
C6_NonEmptyFlagThenConfigThenDefault ==
    \A k \in DOMAIN requests :
        /\ requests[k].url = FirstNonEmpty(<<args.endpoint, config.endpoint>>, DEFAULT_ENDPOINT).val
        /\ requests[k].model = FirstNonEmpty(<<args.model, config.model>>, DEFAULT_MODEL).val

C6_Witness ==
    /\ requests # <<>>
    /\ args.endpoint = Str("http://cli.example/v1") /\ config.endpoint = Str(FlatStr.endpoint)
    /\ args.model = None /\ config.model = Str(FlatStr.model)
    /\ requests[1].url = "http://cli.example/v1" /\ requests[1].model = FlatStr.model

\* ---- C7
ConfigDoc == world.config_file.data
OnlyConfigFile ==
    /\ args.endpoint = None /\ args.model = None
    /\ Truthy(args.config) /\ world.config_file.kind = "toml" /\ world.tomllib
\* the key's value with the llm table laid over the top level, key by key
LlmOverFlat(k) ==
    IF ConfigDoc.llm.kind = "table" /\ IsStr(ConfigDoc.llm.table[k]) THEN ConfigDoc.llm.table[k]
    ELSE IF IsStr(ConfigDoc.top[k]) THEN ConfigDoc.top[k]
    ELSE Absent
\* the key's value read from the llm table when there is one, else from the
\* top level
LlmElseFlat(k) ==
    LET v == IF ConfigDoc.llm.kind = "table" THEN ConfigDoc.llm.table[k] ELSE ConfigDoc.top[k]
    IN  IF IsStr(v) THEN v ELSE Absent

\* C7 as stated: with only a config file, no config content is an error and
\* every request carries the config's endpoint and model, a key being taken
\* from the llm table if it is a string there, else from the top level
\* (nothing is asked here of a key whose value is the empty string).
C7_LlmOverridesFlatPerKey ==
    OnlyConfigFile =>
        /\ (Done /\ stderr # <<>> => LastMsg.kind # "config_read_error")
        /\ \A k \in DOMAIN requests :
            /\ Truthy(LlmOverFlat("endpoint")) => requests[k].url = LlmOverFlat("endpoint").val
            /\ Truthy(LlmOverFlat("model")) => requests[k].model = LlmOverFlat("model").val

\* C7 amended: with only a config file, no config content is an error; the
\* recognised keys are read from the llm table alone when the document has
\* one and from the top level otherwise, a non-string value counting as
\* absent; every request carries the endpoint and model so read when they
\* are non-empty, and the defaults otherwise.
C7_LlmTableReplacesFlat ==
    OnlyConfigFile =>
        /\ (Done /\ stderr # <<>> => LastMsg.kind # "config_read_error")
        /\ (pc # "load_config" => \A k \in ConfigKeys : config[k] = LlmElseFlat(k))
        /\ \A k \in DOMAIN requests :
            /\ requests[k].url =
                 (IF Truthy(LlmElseFlat("endpoint")) THEN LlmElseFlat("endpoint")
                  ELSE DEFAULT_ENDPOINT).val
            /\ requests[k].model =
                 (IF Truthy(LlmElseFlat("model")) THEN LlmElseFlat("model") ELSE DEFAULT_MODEL).val

C7_Witness ==
    /\ OnlyConfigFile /\ requests # <<>>
    /\ ConfigDoc.llm.kind = "table"
    /\ ConfigDoc.llm.table.model = Str(LlmStr.model) /\ ConfigDoc.llm.table.endpoint = PyInt("7")
    /\ ConfigDoc.top.endpoint = Str(FlatStr.endpoint) /\ ConfigDoc.top.model = Str(FlatStr.model)
    /\ requests[1].model = LlmStr.model /\ requests[1].url = DEFAULT_ENDPOINT.val

\* ---- C8
AuthHeaders(r) == { h \in r.headers : h.name = "Authorization" }
KeySources == << config.api_key, env.PDF2MARKDOWN_API_KEY, env.OPENAI_API_KEY >>

\* C8 as stated: the key is the loaded config's value if present, else the
\* tool variable, else the generic variable; every request carries
\* Authorization: Bearer <key> exactly when one of them is present.
C8_KeyConfigThenEnv ==
    \A k \in DOMAIN requests :
        AuthHeaders(requests[k]) =
            (IF FirstPresent(KeySources, None) = None THEN {}
             ELSE { [name |-> "Authorization",
                     value |-> <<"Bearer", FirstPresent(KeySources, None).val>>] })

\* C8 amended: the key is the first non-empty value among the loaded
\* config's, the tool variable's and the generic variable's; every request
\* carries Authorization: Bearer <key> exactly when there is one, and always
\* the JSON content type.
C8_KeyFirstNonEmpty ==
    \A k \in DOMAIN requests :
        /\ AuthHeaders(requests[k]) =
            (IF FirstNonEmpty(KeySources, None) = None THEN {}
             ELSE { [name |-> "Authorization",
                     value |-> <<"Bearer", FirstNonEmpty(KeySources, None).val>>] })
        /\ [name |-> "Content-Type", value |-> <<"application/json">>] \in requests[k].headers

C8_Witness ==
    /\ requests # <<>>
    /\ config.api_key = Str(FlatStr.api_key)
    /\ env.PDF2MARKDOWN_API_KEY = Str("tool-key") /\ env.OPENAI_API_KEY = Str("generic-key")
    /\ AuthHeaders(requests[1]) = { [name |-> "Authorization", value |-> <<"Bearer", FlatStr.api_key>>] }

\* ---- C9
ConfigUsable ==
    Truthy(args.config) => world.config_file.kind = "toml" /\ world.tomllib
\* nothing on the way to the sink fails
NoFatalCondition ==
    /\ ConfigUsable
    /\ world.input.isfile
    /\ InputExt(args.input_path) \in IMAGE_EXTS \cup {PDF_EXT}
    /\ (InputExt(args.input_path) \in IMAGE_EXTS => world.input.readable)
    /\ (InputExt(args.input_path) = PDF_EXT =>
            /\ world.fitz /\ world.pdf.openable
            /\ \A k \in DOMAIN PdfPages : PdfPages[k].renderable)
    /\ \A k \in DOMAIN responses : Succeeded(responses[k])
    /\ (Truthy(args.output) => world.out_mode = "ok")

\* C9: a run that has ended has exit status 0 or 1; it is 0 exactly when
\* nothing failed on the way and the sink was written at the emit step, and
\* 1 whenever the config, the input file, the format, a rendering, a request
\* or the output write failed, each with an error message on stderr.
C9_ExitCodes ==
    Done =>
        /\ exit_code \in {0, 1}
        /\ (exit_code = 0 <=> NoFatalCondition)
        /\ (exit_code = 0 =>
                /\ text.bound
                /\ \A k \in DOMAIN stderr : stderr[k].kind \notin ErrorKinds
                /\ (stdout # <<>> \/ outfile = [exists |-> TRUE, content |-> text.val]))
        /\ (exit_code = 1 => LastMsg.kind \in ErrorKinds)

C9_Witness ==
    /\ Done /\ exit_code = 1 /\ text.bound
    /\ LastMsg.kind = "write_error"
    /\ world.out_mode = "write_fails"

\* ---- C10
\* the endpoint answered with a success status and a JSON body that lacks
\* choices[0].message.content
ShapeMismatch(resp) ==
    resp.delivered /\ 200 <= resp.status /\ resp.status <= 299 /\ resp.shape # "ok"

\* C10: a success answer without choices[0].message.content ends the run
\* with an exception no handler catches, on the image route and on the PDF
\* route, reported neither as a network error nor as a rendering error.
C10_ShapeMismatchUnhandled ==
    \A k \in DOMAIN responses :
        ShapeMismatch(responses[k]) =>
            /\ Done
            /\ LastMsg.kind = "traceback"
            /\ \A j \in DOMAIN stderr :
                 stderr[j].kind \notin {"request_error", "page_request_error", "page_rendering_error"}

====
